---- MODULE Spec2Model ----
(***************************************************************************)
(* A model of streamlit_app.py: the session state of the Berlin map        *)
(* dashboard and the handlers that mutate it, the spreadsheet loader and   *)
(* the five external data gateways.                                        *)
(*                                                                         *)
(* Python values are modelled as follows.  A text is a sequence of         *)
(* one-character strings (a whole word where only the word matters).       *)
(* None is the empty sequence and a present value x is <<x>>, so that a    *)
(* Python "optional" is a sequence of length at most one.  A raised        *)
(* exception is the record Raised; a returned value v is Ret(v).           *)
(***************************************************************************)
EXTENDS Integers, Sequences, FiniteSets

VARIABLES
    \* st.session_state
    map_center, search_marker, recommendations, messages,
    \* widget state kept by the framework between reruns
    search_query, show,
    \* module-level configuration read once from the secrets
    GEMINI_API_KEY,
    \* loader: the spreadsheet on disk and the value the loader returned
    xlsx, crime_df,
    \* gateways: the last gateway call, its network outcome and its result
    gw

vars == <<map_center, search_marker, recommendations, messages, search_query,
          show, GEMINI_API_KEY, xlsx, crime_df, gw>>

sessionVars == <<map_center, search_marker, recommendations, messages,
                 search_query, show, GEMINI_API_KEY>>
loaderVars == <<xlsx, crime_df>>
gatewayVars == <<gw>>

-----------------------------------------------------------------------------
(* Python values *)

None == <<>>
Some(x) == <<x>>

Raised == [raised |-> TRUE, value |-> None]
Ret(v) == [raised |-> FALSE, value |-> Some(v)]
Val(r) == r.value[1]

Range(s) == {s[i] : i \in 1..Len(s)}

\* Sequences over S of length at most n.
SeqUpTo(S, n) == UNION {[1..k -> S] : k \in 0..n}

\* Truthiness of a text and of an optional number, as "if x:" tests it.
TruthyText(s) == Len(s) > 0
TruthyNum(o) == o # None /\ o[1] # 0

\* Decimal digits and the value of a text made of digits only.
Digits == {"0", "1", "2", "3", "4", "5", "6", "7", "8", "9"}
DigitVal(c) ==
    CASE c = "0" -> 0 [] c = "1" -> 1 [] c = "2" -> 2 [] c = "3" -> 3
      [] c = "4" -> 4 [] c = "5" -> 5 [] c = "6" -> 6 [] c = "7" -> 7
      [] c = "8" -> 8 [] c = "9" -> 9
IsDecimal(s) == Len(s) > 0 /\ \A i \in 1..Len(s) : s[i] \in Digits
RECURSIVE DecimalVal(_)
DecimalVal(s) ==
    IF Len(s) = 0 THEN 0
    ELSE 10 * DecimalVal(SubSeq(s, 1, Len(s) - 1)) + DigitVal(s[Len(s)])

\* float(x) of a text: the number, or ValueError.
PyFloat(s) == IF IsDecimal(s) THEN Ret(DecimalVal(s)) ELSE Raised

-----------------------------------------------------------------------------
(* External services.  requests.get(...).json() either raises (transport  *)
(* failure, or a body that is not JSON) or yields the decoded body.        *)

NetErr == [kind |-> "neterr", body |-> None]
BadJson == [kind |-> "badjson", body |-> None]
Json(b) == [kind |-> "json", body |-> Some(b)]

\* requests.get(url).json()
GetJson(resp) == IF resp.kind = "json" THEN Ret(resp.body[1]) ELSE Raised

\* d[k] of a dict: the value, or KeyError.
HasKey(d, k) == k \in DOMAIN d

FallbackRate == 1450
FallbackTemperature == 15
FallbackWeatherCode == 0
FallbackWeather ==
    [temperature |-> FallbackTemperature, weathercode |-> FallbackWeatherCode]

\* The try block of get_exchange_rate.
exchange_rate_try(resp) ==
    LET data == GetJson(resp) IN
    IF data.raised THEN Raised
    ELSE IF ~HasKey(Val(data), "rates") THEN Raised
    ELSE IF ~HasKey(Val(data).rates, "KRW") THEN Raised
    ELSE Ret(Val(data).rates.KRW)

get_exchange_rate(resp) ==
    LET r == exchange_rate_try(resp) IN
    IF r.raised THEN Ret(FallbackRate) ELSE r

\* The try block of get_weather.
weather_try(resp) ==
    LET data == GetJson(resp) IN
    IF data.raised THEN Raised
    ELSE IF ~HasKey(Val(data), "current_weather") THEN Raised
    ELSE Ret(Val(data).current_weather)

get_weather(resp) ==
    LET r == weather_try(resp) IN
    IF r.raised THEN Ret(FallbackWeather) ELSE r

\* str.replace(" ", "+") on a text.
ReplaceSpace(s) == [i \in 1..Len(s) |-> IF s[i] = " " THEN "+" ELSE s[i]]

GoogleSearchPrefix == <<"https://www.google.com/search?q=">>
BerlinSuffix == <<" ", "Berlin">>

\* One element of the Overpass answer: skipped (None), a place, or KeyError.
osm_element(element) ==
    IF HasKey(element, "tags") /\ HasKey(element.tags, "name")
    THEN LET name == element.tags.name
             link == GoogleSearchPrefix \o ReplaceSpace(name \o BerlinSuffix)
         IN  IF ~HasKey(element, "lat") \/ ~HasKey(element, "lon") THEN Raised
             ELSE Ret(Some([name |-> name, lat |-> element.lat,
                            lng |-> element.lon, link |-> link]))
    ELSE Ret(None)

\* The for loop of get_osm_places over data['elements'].
RECURSIVE osm_loop(_, _)
osm_loop(elements, results) ==
    IF Len(elements) = 0 THEN Ret(results)
    ELSE LET e == osm_element(Head(elements)) IN
         IF e.raised THEN Raised
         ELSE osm_loop(Tail(elements), results \o Val(e))

\* The try block of get_osm_places.
osm_try(resp) ==
    LET data == GetJson(resp) IN
    IF data.raised THEN Raised
    ELSE IF ~HasKey(Val(data), "elements") THEN Raised
    ELSE osm_loop(Val(data).elements, <<>>)

OsmCategories == {"restaurant", "hotel", "tourism"}

\* A place search without its except clause.
get_osm_places_no_except(category, lat, lng, resp) ==
    IF category \notin OsmCategories THEN Ret(<<>>) ELSE osm_try(resp)

get_osm_places(category, lat, lng, resp) ==
    IF category \notin OsmCategories THEN Ret(<<>>)
    ELSE LET r == osm_try(resp) IN
         IF r.raised THEN Ret(<<>>) ELSE r

NoneTriple == <<None, None, None>>

\* The try block of search_location: a triple, nothing (falls through to the
\* final return), or an exception.
search_location_try(query, resp) ==
    LET res == GetJson(resp) IN
    IF res.raised THEN Raised
    ELSE IF Len(Val(res)) = 0 THEN Ret(None)
    ELSE LET hit == Val(res)[1] IN
         IF ~HasKey(hit, "lat") THEN Raised
         ELSE IF PyFloat(hit.lat).raised THEN Raised
         ELSE IF ~HasKey(hit, "lon") THEN Raised
         ELSE IF PyFloat(hit.lon).raised THEN Raised
         ELSE IF ~HasKey(hit, "display_name") THEN Raised
         ELSE Ret(Some(<<Some(Val(PyFloat(hit.lat))),
                         Some(Val(PyFloat(hit.lon))),
                         Some(hit.display_name)>>))

search_location(query, resp) ==
    LET r == search_location_try(query, resp) IN
    IF r.raised \/ Val(r) = None THEN Ret(NoneTriple) ELSE Ret(Val(r)[1])

NeedKeyText == "API key required"   \* "API 키가 필요합니다."
AiErrorText == "AI error"           \* "AI 오류"

\* model.generate_content(prompt) then response.text: the text, or an exception
\* (transport failure, or a response with no text part).
gemini_try(prompt, llm) ==
    IF llm.kind = "ok" THEN Ret(llm.text) ELSE Raised

\* An assistant call without its except clause.
get_gemini_no_except(prompt, key, llm) ==
    IF ~TruthyText(key) THEN Ret(NeedKeyText) ELSE gemini_try(prompt, llm)

get_gemini_response(prompt, key, llm) ==
    IF ~TruthyText(key) THEN Ret(NeedKeyText)
    ELSE LET r == gemini_try(prompt, llm) IN
         IF r.raised THEN Ret(AiErrorText) ELSE r

-----------------------------------------------------------------------------
(* The spreadsheet loader.  A sheet is a sequence of rows, a row a sequence *)
(* of cells.  A text cell holds its text; a header text is a sequence of    *)
(* words, blanks and line breaks, so that "k in c" is membership of the     *)
(* word k in the text c.                                                    *)

StrCell(s) == [type |-> "str", s |-> s, n |-> 0]
NumCell(n) == [type |-> "num", s |-> <<>>, n |-> n]
NaN == [type |-> "nan", s |-> <<>>, n |-> 0]

SkipRows == 4

\* str.replace('\n', ' ')
ReplaceNewline(s) == [i \in 1..Len(s) |-> IF s[i] = "\n" THEN " " ELSE s[i]]

\* str.strip()
RECURSIVE LStrip(_)
LStrip(s) ==
    IF Len(s) > 0 /\ Head(s) \in {" ", "\n"} THEN LStrip(Tail(s)) ELSE s
RECURSIVE RStrip(_)
RStrip(s) ==
    IF Len(s) > 0 /\ s[Len(s)] \in {" ", "\n"}
    THEN RStrip(SubSeq(s, 1, Len(s) - 1)) ELSE s
Strip(s) == RStrip(LStrip(s))

\* pd.read_excel(file_name, skiprows=4): the frame, or an exception.  The row
\* after the skipped ones is the header; a sheet with no such row has no column.
read_excel(file) ==
    IF ~file.readable THEN Raised
    ELSE IF Len(file.rows) <= SkipRows THEN Ret([columns |-> <<>>, rows |-> <<>>])
    ELSE LET header == file.rows[SkipRows + 1] IN
         Ret([columns |-> [j \in 1..Len(header) |-> header[j].s],
              rows |-> SubSeq(file.rows, SkipRows + 2, Len(file.rows))])

\* df.columns = [str(c).replace('\n', ' ').strip() for c in df.columns]
normalize_columns(columns) ==
    [j \in 1..Len(columns) |-> Strip(ReplaceNewline(columns[j]))]

is_district_header(c) == "Bezeichnung" \in Range(c)
is_total_header(c) == "Straftaten" \in Range(c) /\ "insgesamt" \in Range(c)

\* The for loop over df.columns: the last matching name, or None.
RECURSIVE find_columns(_, _, _)
find_columns(columns, district_col, total_col) ==
    IF Len(columns) = 0 THEN <<district_col, total_col>>
    ELSE LET c == Head(columns) IN
         find_columns(Tail(columns),
                      IF is_district_header(c) THEN Some(c) ELSE district_col,
                      IF is_total_header(c) THEN Some(c) ELSE total_col)

\* "not col": None, or the empty text.
NotCol(col) == col = None \/ ~TruthyText(col[1])

berlin_districts ==
    { <<"Mitte">>, <<"Friedrichshain-Kreuzberg">>, <<"Pankow">>,
      <<"Charlottenburg-Wilmersdorf">>, <<"Spandau">>, <<"Steglitz-Zehlendorf">>,
      <<"Tempelhof-Schöneberg">>, <<"Neukölln">>, <<"Treptow-Köpenick">>,
      <<"Marzahn-Hellersdorf">>, <<"Lichtenberg">>, <<"Reinickendorf">> }

\* A filter that keeps every text.
isin_any_text(cell) == cell.type = "str"

\* Series.isin(berlin_districts) on one cell.
isin_districts(cell) == cell.type = "str" /\ cell.s \in berlin_districts

\* pd.to_numeric(..., errors='coerce') on one cell, then .fillna(0).
to_numeric(cell) ==
    CASE cell.type = "num" -> cell
      [] cell.type = "str" ->
            IF IsDecimal(cell.s) THEN NumCell(DecimalVal(cell.s)) ELSE NaN
      [] OTHER -> NaN
\* A loader that leaves the failed coercions as they are.
fillna_missing(cell) == cell

fillna0(cell) == IF cell.type = "nan" THEN NumCell(0) ELSE cell

\* The positions of the columns that carry a name.
ColumnsNamed(columns, name) == {j \in 1..Len(columns) : columns[j] = name}
TheColumn(columns, name) == CHOOSE j \in ColumnsNamed(columns, name) : TRUE

\* df[df[district_col].isin(berlin_districts)].copy(): the labels (positions)
\* of the rows kept, in the frame's order, from row i on.
RECURSIVE filter_from(_, _, _)
filter_from(rows, d, i) ==
    IF i > Len(rows) THEN <<>>
    ELSE (IF isin_districts(rows[i][d]) THEN <<i>> ELSE <<>>)
         \o filter_from(rows, d, i + 1)

filter_districts(rows, d) == filter_from(rows, d, 1)

EmptyDataFrame == [columns |-> <<>>, rows |-> <<>>]

\* The try block of load_crime_data_for_map.  A name carried by two columns
\* selects a frame, not a series: the filter and to_numeric raise on it.  One
\* column matched as both loses the name District in the rename (the second
\* key of the dict overwrites the first), and the final selection raises.
load_crime_try(file) ==
    LET df == read_excel(file) IN
    IF df.raised THEN Raised
    ELSE
    LET columns == normalize_columns(Val(df).columns)
        rows == Val(df).rows
        found == find_columns(columns, None, None)
        district_col == found[1]
        total_col == found[2]
    IN  IF NotCol(district_col) \/ NotCol(total_col) THEN Ret(EmptyDataFrame)
        ELSE IF Cardinality(ColumnsNamed(columns, district_col[1])) > 1 THEN Raised
        ELSE IF Cardinality(ColumnsNamed(columns, total_col[1])) > 1 THEN Raised
        ELSE IF district_col = total_col THEN Raised
        ELSE
        LET d == TheColumn(columns, district_col[1])
            t == TheColumn(columns, total_col[1])
            kept == filter_districts(rows, d)
        IN  Ret([columns |-> <<"District", "Total_Crime">>,
                 rows |-> [k \in 1..Len(kept) |->
                             [index |-> kept[k] - 1,
                              District |-> rows[kept[k]][d].s,
                              Total_Crime |-> fillna0(to_numeric(rows[kept[k]][t]))]]])

\* A loader without its except clause.
load_crime_no_except(file) == load_crime_try(file)

load_crime_data_for_map(file) ==
    LET r == load_crime_try(file) IN
    IF r.raised THEN Ret(EmptyDataFrame) ELSE r

\* DataFrame.empty
IsEmptyFrame(df) == Len(df.columns) = 0 \/ Len(df.rows) = 0

-----------------------------------------------------------------------------
(* The session.  Every interaction re-executes the script from the top: the *)
(* sidebar search block runs first, on the text the search box holds, then  *)
(* the handler of the widget that triggered the run.  The map of tab 1 is    *)
(* rebuilt from the state and writes nothing to it.  st.rerun() ends the     *)
(* run and starts another one, in which no widget is triggered.  A run is    *)
(* one step: it is taken to its end, and the calls of the map library in     *)
(* tab 1 return.                                                             *)

\* The number of posts (recommendations, replies, chat prompts) of a session.
MaxPosts == 3

DefaultCenter == <<52, 13>>

Layers == {"show_crime", "show_food", "show_hotel", "show_tour"}
DefaultShow ==
    [l \in Layers |-> IF l \in {"show_crime", "show_food"} THEN TRUE ELSE FALSE]

QueryTexts == { <<>>, <<" ", " ">>, <<"Kreuzberg">> }
Places == {"Alexanderplatz", "Mauerpark"}
Descs == {"Great views"}
ReplyTexts == {"Agreed!", ""}
Prompts == {"Wo essen?"}
ApiKeys == { <<>>, <<"k", "e", "y">> }

\* What the geocoder may answer to a search of the sidebar, and the model to
\* a prompt.
GeoHit == [lat |-> <<"5", "1">>, lon |-> <<"1", "4">>, display_name |-> "Kreuzberg, Berlin"]
SessionGeoResponses == {NetErr, Json(<<GeoHit>>)}
LlmOk(t) == [kind |-> "ok", text |-> t]
LlmErr == [kind |-> "neterr", text |-> ""]
LlmBlocked == [kind |-> "blocked", text |-> ""]
SessionLlmResponses == {LlmOk("Curry 36"), LlmErr}

\* The number of recommendations and replies on the board.
RECURSIVE BoardSize(_)
BoardSize(recs) ==
    IF Len(recs) = 0 THEN 0
    ELSE 1 + Len(Head(recs).replies) + BoardSize(Tail(recs))

PostCount == BoardSize(recommendations) + (Len(messages) + 1) \div 2

\* The view of the state a script run reads and writes.
Session(mc, sm, recs, msgs) ==
    [map_center |-> mc, search_marker |-> sm, recommendations |-> recs,
     messages |-> msgs, aborted |-> FALSE]

\* A search block that omits the test "if search_query:".
sidebar_search_unguarded(S, query, resp) ==
    LET r == search_location(query \o BerlinSuffix, resp) IN
    IF r.raised THEN [S EXCEPT !.aborted = TRUE]
    ELSE IF TruthyNum(Val(r)[1])
         THEN [S EXCEPT !.map_center = <<Val(r)[1][1], Val(r)[2][1]>>,
                        !.search_marker =
                            Some([lat |-> Val(r)[1][1], lng |-> Val(r)[2][1],
                                  name |-> Val(r)[3][1]])]
         ELSE S

\* The sidebar search block: "if search_query:" ... "if lat:".
sidebar_search(S, query, resp) ==
    IF ~TruthyText(query) THEN S
    ELSE LET r == search_location(query \o BerlinSuffix, resp) IN
         IF r.raised THEN [S EXCEPT !.aborted = TRUE]
         ELSE LET lat == Val(r)[1]
                  lng == Val(r)[2]
                  name == Val(r)[3]
              IN  IF TruthyNum(lat)
                  THEN [S EXCEPT !.map_center = <<lat[1], lng[1]>>,
                                 !.search_marker =
                                     Some([lat |-> lat[1], lng |-> lng[1],
                                           name |-> name[1]])]
                  ELSE S

\* list.append(x) in the place of list.insert(0, x).
InsertLast(list, x) == Append(list, x)

\* list.insert(0, x)
Insert0(list, x) == <<x>> \o list

\* The submit branch of rec_form.
rec_form_submit(S, place, desc) ==
    [S EXCEPT !.recommendations =
        Insert0(@, [place |-> place, desc |-> desc, replies |-> <<>>])]

\* A reply handler that assigns the list in the place of appending to it.
reply_press_overwrite(S, i, r_text) ==
    [S EXCEPT !.recommendations[i + 1].replies = <<r_text>>]

\* The branch of the button reply_btn_i: rec['replies'].append(r_text).
reply_press(S, i, r_text) ==
    [S EXCEPT !.recommendations[i + 1].replies = Append(@, r_text)]

\* The branch of st.chat_input.
chat_input(S, prompt, key, llm) ==
    LET S1 == [S EXCEPT !.messages =
                   Append(@, [role |-> "user", content |-> prompt])]
        resp == get_gemini_response(prompt, key, llm)
    IN  IF resp.raised THEN [S1 EXCEPT !.aborted = TRUE]
        ELSE [S1 EXCEPT !.messages =
                  Append(@, [role |-> "assistant", content |-> Val(resp)])]

\* A run of the script in which no widget is triggered (also the run that
\* st.rerun() starts).
plain_run(S, query, resp) == [sidebar_search(S, query, resp) EXCEPT !.aborted = FALSE]

\* The end of a run in which a handler that ends in st.rerun() is triggered:
\* S1 is the session after the sidebar block of the run, H the session after
\* the handler, and the run that st.rerun() starts follows.
run_then_rerun(S1, H, query, resp2) ==
    IF S1.aborted THEN [S1 EXCEPT !.aborted = FALSE]
    ELSE plain_run(H, query, resp2)

Current == Session(map_center, search_marker, recommendations, messages)

Commit(S) ==
    /\ map_center' = S.map_center
    /\ search_marker' = S.search_marker
    /\ recommendations' = S.recommendations
    /\ messages' = S.messages

SessionInit ==
    /\ map_center = DefaultCenter
    /\ search_marker = None
    /\ recommendations = <<>>
    /\ messages = <<>>
    /\ search_query = <<>>
    /\ show = DefaultShow
    /\ GEMINI_API_KEY \in ApiKeys

\* The user enters a text in the search box (or clears it).
SubmitSearch(q) ==
    /\ q # search_query
    /\ search_query' = q
    /\ \E resp \in SessionGeoResponses : Commit(plain_run(Current, q, resp))
    /\ UNCHANGED <<show, GEMINI_API_KEY>>

\* The user flips one of the four layer checkboxes.
ToggleLayer(l) ==
    /\ show' = [show EXCEPT ![l] = ~@]
    /\ \E resp \in SessionGeoResponses :
          Commit(plain_run(Current, search_query, resp))
    /\ UNCHANGED <<search_query, GEMINI_API_KEY>>

\* The user submits the recommendation form.
SubmitRecommendation(place, desc) ==
    /\ UNCHANGED <<search_query, show, GEMINI_API_KEY>>
    /\ PostCount < MaxPosts
    /\ \E resp1, resp2 \in SessionGeoResponses :
          LET S1 == sidebar_search(Current, search_query, resp1) IN
          Commit(run_then_rerun(S1, rec_form_submit(S1, place, desc),
                                search_query, resp2))

\* The user presses the reply button of the recommendation at index i, the
\* reply box of which holds r_text.
PressReply(i, r_text) ==
    /\ UNCHANGED <<search_query, show, GEMINI_API_KEY>>
    /\ PostCount < MaxPosts
    /\ i < Len(recommendations)
    /\ \E resp1, resp2 \in SessionGeoResponses :
          LET S1 == sidebar_search(Current, search_query, resp1) IN
          Commit(run_then_rerun(S1, reply_press(S1, i, r_text),
                                search_query, resp2))

\* The user sends a prompt in the chat input.
ChatPrompt(prompt) ==
    /\ UNCHANGED <<search_query, show, GEMINI_API_KEY>>
    /\ PostCount < MaxPosts
    /\ \E resp \in SessionGeoResponses, llm \in SessionLlmResponses :
          LET S1 == sidebar_search(Current, search_query, resp) IN
          IF S1.aborted THEN Commit(S1)
          ELSE Commit(chat_input(S1, prompt, GEMINI_API_KEY, llm))

SessionIdle ==
    /\ map_center = DefaultCenter
    /\ search_marker = None
    /\ recommendations = <<>>
    /\ messages = <<>>
    /\ search_query = <<>>
    /\ show = DefaultShow
    /\ GEMINI_API_KEY = <<>>

-----------------------------------------------------------------------------
(* The loader's run: the file on disk does not change; the first call (a   *)
(* miss of st.cache_data) computes the frame, later calls return it.        *)

MaxRows == 2

TitleRow == <<StrCell(<<"Kriminalitätsatlas">>), NaN>>
TitleBlock == [i \in 1..SkipRows |-> TitleRow]

RawHeaders ==
    { <<"Bezeichnung">>,
      <<"Bezeichnung", "\n">>,
      <<"Straftaten", " ", "insgesamt">>,
      <<"Straftaten", "\n", "insgesamt">>,
      <<"Straftaten">>,
      <<"Bezeichnung", " ", "Straftaten", " ", "insgesamt">> }

\* read_excel renames a repeated header, so the raw headers of a sheet differ.
HeaderRows ==
    { <<StrCell(h[1]), StrCell(h[2])>> :
        h \in {p \in RawHeaders \X RawHeaders : p[1] # p[2]} }

FirstCells ==
    { StrCell(<<"Mitte">>), StrCell(<<"Pankow">>), StrCell(<<"Berlin total">>),
      StrCell(<<"1", "2">>) }
SecondCells ==
    { StrCell(<<"1", "2">>), NumCell(7), StrCell(<<"n", "/", "a">>),
      StrCell(<<"Mitte">>) }
DataRows == { <<c1, c2>> : c1 \in FirstCells, c2 \in SecondCells }

Files ==
    { [readable |-> FALSE, rows |-> <<>>], [readable |-> TRUE, rows |-> TitleBlock] }
    \cup { [readable |-> TRUE, rows |-> TitleBlock \o <<h>> \o data] :
             h \in HeaderRows, data \in SeqUpTo(DataRows, MaxRows) }

NotLoaded == [raised |-> FALSE, value |-> None]

LoaderIdle == xlsx = [readable |-> FALSE, rows |-> <<>>] /\ crime_df = NotLoaded

LoaderInit == xlsx \in Files /\ crime_df = NotLoaded

\* load_crime_data_for_map(CRIME_FILE_NAME), on a cache miss.
LoadCrime ==
    /\ crime_df = NotLoaded
    /\ crime_df' = load_crime_data_for_map(xlsx)
    /\ UNCHANGED xlsx

-----------------------------------------------------------------------------
(* The gateways' runs: one call of a gateway, with the answer of its        *)
(* service, recorded with the value the call returned.                      *)

MaxElements == 2

RateResponses ==
    { NetErr, BadJson, Json([rates |-> [KRW |-> 1480]]),
      Json([rates |-> [USD |-> 1]]), Json([result |-> "error"]) }

WeatherResponses ==
    { NetErr, BadJson,
      Json([current_weather |-> [temperature |-> 7, weathercode |-> 3]]),
      Json([reason |-> "error"]) }

OsmElements ==
    { [tags |-> [name |-> <<"Curry", " ", "36">>], lat |-> 52, lon |-> 13],
      [lat |-> 52, lon |-> 13],
      [tags |-> [amenity |-> "restaurant"], lat |-> 52, lon |-> 13],
      [tags |-> [name |-> <<"Mustafa">>], lon |-> 13] }
OsmResponses ==
    { NetErr, BadJson, Json([remark |-> "runtime error"]) }
    \cup { Json([elements |-> es]) : es \in SeqUpTo(OsmElements, MaxElements) }
OsmQueries == OsmCategories \cup {"bar"}

GeoResponses ==
    SessionGeoResponses
    \cup { BadJson, Json(<<>>),
           Json(<<[GeoHit EXCEPT !.lat = <<"0">>]>>),
           Json(<<[GeoHit EXCEPT !.lat = <<"n", "o">>]>>),
           Json(<<[lat |-> <<"5", "1">>, lon |-> <<"1", "4">>]>>) }

LlmResponses == SessionLlmResponses \cup {LlmBlocked}

NoCall == [fn |-> "none"]

GatewayIdle == gw = NoCall

CallExchangeRate ==
    \E resp \in RateResponses :
        gw' = [fn |-> "get_exchange_rate", resp |-> resp,
               out |-> get_exchange_rate(resp)]

CallWeather ==
    \E resp \in WeatherResponses :
        gw' = [fn |-> "get_weather", resp |-> resp, out |-> get_weather(resp)]

CallOsmPlaces ==
    \E category \in OsmQueries, resp \in OsmResponses :
        gw' = [fn |-> "get_osm_places", category |-> category, resp |-> resp,
               out |-> get_osm_places(category, DefaultCenter[1],
                                      DefaultCenter[2], resp)]

CallSearchLocation ==
    \E query \in QueryTexts, resp \in GeoResponses :
        gw' = [fn |-> "search_location", query |-> query, resp |-> resp,
               out |-> search_location(query, resp)]

CallGemini ==
    \E prompt \in Prompts, key \in ApiKeys, llm \in LlmResponses :
        gw' = [fn |-> "get_gemini_response", prompt |-> prompt, key |-> key,
               llm |-> llm, out |-> get_gemini_response(prompt, key, llm)]

-----------------------------------------------------------------------------
(* Specifications *)

Init == SessionInit /\ LoaderIdle /\ GatewayIdle
Next ==
    \/ \E q \in QueryTexts :
          SubmitSearch(q) /\ UNCHANGED <<loaderVars, gatewayVars>>
    \/ \E l \in Layers :
          ToggleLayer(l) /\ UNCHANGED <<loaderVars, gatewayVars>>
    \/ \E place \in Places, desc \in Descs :
          SubmitRecommendation(place, desc) /\ UNCHANGED <<loaderVars, gatewayVars>>
    \/ \E i \in 0..(MaxPosts - 1), r_text \in ReplyTexts :
          PressReply(i, r_text) /\ UNCHANGED <<loaderVars, gatewayVars>>
    \/ \E prompt \in Prompts :
          ChatPrompt(prompt) /\ UNCHANGED <<loaderVars, gatewayVars>>
Spec == Init /\ [][Next]_vars

InitLoader == SessionIdle /\ LoaderInit /\ GatewayIdle
NextLoader == LoadCrime /\ UNCHANGED <<sessionVars, gatewayVars>>
SpecLoader == InitLoader /\ [][NextLoader]_vars

InitGateway == SessionIdle /\ LoaderIdle /\ GatewayIdle
NextGateway ==
    \/ CallExchangeRate /\ UNCHANGED <<sessionVars, loaderVars>>
    \/ CallWeather /\ UNCHANGED <<sessionVars, loaderVars>>
    \/ CallOsmPlaces /\ UNCHANGED <<sessionVars, loaderVars>>
    \/ CallSearchLocation /\ UNCHANGED <<sessionVars, loaderVars>>
    \/ CallGemini /\ UNCHANGED <<sessionVars, loaderVars>>
SpecGateway == InitGateway /\ [][NextGateway]_vars

-----------------------------------------------------------------------------
(* Properties of the loader, stated on the sheet itself. *)

Max(S) == CHOOSE x \in S : \A y \in S : y <= x

HeaderOf(file) ==
    IF file.readable /\ Len(file.rows) > SkipRows
    THEN file.rows[SkipRows + 1] ELSE <<>>
DataOf(file) ==
    IF file.readable /\ Len(file.rows) > SkipRows
    THEN SubSeq(file.rows, SkipRows + 2, Len(file.rows)) ELSE <<>>

DistrictCols(file) ==
    {j \in 1..Len(HeaderOf(file)) : "Bezeichnung" \in Range(HeaderOf(file)[j].s)}
TotalCols(file) ==
    {j \in 1..Len(HeaderOf(file)) :
        {"Straftaten", "insgesamt"} \subseteq Range(HeaderOf(file)[j].s)}

CleanHeader(file, j) == Strip(ReplaceNewline(HeaderOf(file)[j].s))
UniquelyNamed(file, j) ==
    \A j2 \in 1..Len(HeaderOf(file)) :
        CleanHeader(file, j2) = CleanHeader(file, j) => j2 = j

\* The loader's two columns are two columns, each alone in carrying its name.
Resolved(file) ==
    /\ DistrictCols(file) # {} /\ TotalCols(file) # {}
    /\ Max(DistrictCols(file)) # Max(TotalCols(file))
    /\ UniquelyNamed(file, Max(DistrictCols(file)))
    /\ UniquelyNamed(file, Max(TotalCols(file)))

IsAllowListed(cell) == cell.type = "str" /\ cell.s \in berlin_districts
NonNumericText(cell) == cell.type = "str" /\ ~IsDecimal(cell.s)

AllowListedRows(file, d) ==
    {i \in 1..Len(DataOf(file)) : IsAllowListed(DataOf(file)[i][d])}

Loaded == crime_df # NotLoaded /\ ~crime_df.raised
Output == Val(crime_df).rows

\* The output is the rows of the sheet whose cell in column d is allow-listed,
\* each once, in the sheet's order.
OutputIsFilterOf(file, d) ==
    /\ Len(Output) = Cardinality(AllowListedRows(file, d))
    /\ \A k \in 1..Len(Output) :
          /\ Output[k].index + 1 \in AllowListedRows(file, d)
          /\ Output[k].District = DataOf(file)[Output[k].index + 1][d].s
    /\ \A k1, k2 \in 1..Len(Output) :
          k1 < k2 => Output[k1].index < Output[k2].index

\* C1: the loader never raises; an unreadable file, a sheet with no header
\* containing 'Bezeichnung', or with no header containing both 'Straftaten' and
\* 'insgesamt', yields the empty frame.
C1_LoaderNeverRaises ==
    crime_df # NotLoaded =>
        /\ ~crime_df.raised
        /\ (~xlsx.readable \/ DistrictCols(xlsx) = {} \/ TotalCols(xlsx) = {})
              => Val(crime_df) = EmptyDataFrame

\* C1: a loaded sheet with a district header, no total header and allow-listed
\* cells, for which the empty frame came back.
C1_Witness ==
    /\ Loaded
    /\ xlsx.readable
    /\ DistrictCols(xlsx) # {} /\ TotalCols(xlsx) = {}
    /\ \E i \in 1..Len(DataOf(xlsx)) : \E j \in 1..2 : IsAllowListed(DataOf(xlsx)[i][j])
    /\ Val(crime_df) = EmptyDataFrame

\* C3 (as claimed): the frame the loader returns holds at most one row per
\* district, whatever the sheet.
C3_OneRowPerDistrict ==
    Loaded =>
        \A k1, k2 \in 1..Len(Output) :
            Output[k1].District = Output[k2].District => k1 = k2

\* C6 (as claimed): for every sheet with a header containing 'Bezeichnung' and
\* a header containing 'Straftaten' and 'insgesamt', the output is exactly the
\* rows whose district value (in some district column) is allow-listed, in the
\* sheet's order.
C6_AllowListedRows ==
    (Loaded /\ DistrictCols(xlsx) # {} /\ TotalCols(xlsx) # {}) =>
        \E d \in DistrictCols(xlsx) : OutputIsFilterOf(xlsx, d)

\* C6 (amended): when the last header containing 'Bezeichnung' and the last
\* header containing 'Straftaten' and 'insgesamt' are two different columns,
\* each the only one of its name after normalisation, the output is exactly the
\* rows whose value in that district column is allow-listed, in the sheet's
\* order; every other row is excluded.
C6_AllowListedRowsResolved ==
    (Loaded /\ Resolved(xlsx)) =>
        OutputIsFilterOf(xlsx, Max(DistrictCols(xlsx)))

\* C6: a sheet of two rows, the first a 'Berlin total' row that was dropped, the
\* second an allow-listed row that was kept.
C6_Witness ==
    /\ Loaded /\ Resolved(xlsx)
    /\ Len(Output) = 1
    /\ Len(DataOf(xlsx)) = 2
    /\ Output[1].index = 1
    /\ DataOf(xlsx)[1][Max(DistrictCols(xlsx))] = StrCell(<<"Berlin total">>)

-----------------------------------------------------------------------------
(* Properties of the gateways, stated on the answer of the service. *)

TransportFailed(resp) == resp.kind \in {"neterr", "badjson"}

RateUnparsable(resp) ==
    resp.kind = "json" /\
    LET data == resp.body[1] IN
    ~("rates" \in DOMAIN data /\ "KRW" \in DOMAIN data.rates)

WeatherUnparsable(resp) ==
    resp.kind = "json" /\ "current_weather" \notin DOMAIN resp.body[1]

OsmUnparsable(resp) ==
    resp.kind = "json" /\
    LET data == resp.body[1] IN
    \/ "elements" \notin DOMAIN data
    \/ \E i \in 1..Len(data.elements) :
          LET e == data.elements[i] IN
          /\ "tags" \in DOMAIN e /\ "name" \in DOMAIN e.tags
          /\ ~({"lat", "lon"} \subseteq DOMAIN e)

GeoUnparsable(resp) ==
    resp.kind = "json" /\ Len(resp.body[1]) > 0 /\
    LET hit == resp.body[1][1] IN
    \/ ~({"lat", "lon", "display_name"} \subseteq DOMAIN hit)
    \/ ~IsDecimal(hit.lat) \/ ~IsDecimal(hit.lon)

\* C5: when the network call or the parsing of the answer fails, a gateway
\* returns its fallback and raises nothing: 1450 for the exchange rate,
\* {temperature 15, weathercode 0} for the weather, the empty list for the
\* place search, the none triple for the geocoder, one fixed text for the
\* assistant.
C5_GatewayFallbacks ==
    /\ gw.fn # "none" => ~gw.out.raised
    /\ (gw.fn = "get_exchange_rate"
          /\ (TransportFailed(gw.resp) \/ RateUnparsable(gw.resp)))
          => gw.out = Ret(1450)
    /\ (gw.fn = "get_weather"
          /\ (TransportFailed(gw.resp) \/ WeatherUnparsable(gw.resp)))
          => gw.out = Ret([temperature |-> 15, weathercode |-> 0])
    /\ (gw.fn = "get_osm_places"
          /\ (TransportFailed(gw.resp) \/ OsmUnparsable(gw.resp)))
          => gw.out = Ret(<<>>)
    /\ (gw.fn = "search_location"
          /\ (TransportFailed(gw.resp) \/ GeoUnparsable(gw.resp)))
          => gw.out = Ret(<<None, None, None>>)
    /\ (gw.fn = "get_gemini_response" /\ gw.key # <<>> /\ gw.llm.kind # "ok")
          => gw.out = Ret(AiErrorText)

\* C5: a place search whose answer holds a well-formed element and then a named
\* element without coordinates, answered by the empty list.
C5_Witness ==
    /\ gw.fn = "get_osm_places"
    /\ gw.category = "restaurant"
    /\ gw.resp.kind = "json"
    /\ "elements" \in DOMAIN gw.resp.body[1]
    /\ Len(gw.resp.body[1].elements) = 2
    /\ "lat" \in DOMAIN gw.resp.body[1].elements[1]
    /\ "tags" \in DOMAIN gw.resp.body[1].elements[1]
    /\ "name" \in DOMAIN gw.resp.body[1].elements[1].tags
    /\ OsmUnparsable(gw.resp)
    /\ gw.out = Ret(<<>>)

-----------------------------------------------------------------------------
(* Properties of the session. *)

IsBlank(q) == \A i \in 1..Len(q) : q[i] = " "

ViewChanged == <<map_center, search_marker>>' # <<map_center, search_marker>>
BoardChanged == recommendations' # recommendations
ChatChanged == messages' # messages

RecommendStep == \E place \in Places, desc \in Descs : SubmitRecommendation(place, desc)
ReplyStep == \E i \in 0..(MaxPosts - 1), r_text \in ReplyTexts : PressReply(i, r_text)
ChatStep == \E prompt \in Prompts : ChatPrompt(prompt)

\* C2 (as claimed): a search for an empty or whitespace-only text leaves the map
\* center and the search marker as they were.
C2_BlankSearchNoEffect ==
    [][\A q \in QueryTexts :
          (IsBlank(q) /\ SubmitSearch(q)) => UNCHANGED <<map_center, search_marker>>]_vars

C7_SubmitPrepends ==
    [][\A place \in Places, desc \in Descs :
          SubmitRecommendation(place, desc) =>
              /\ Len(recommendations') = Len(recommendations) + 1
              /\ recommendations'[1] =
                     [place |-> place, desc |-> desc, replies |-> <<>>]
              /\ \A k \in 1..Len(recommendations) :
                     recommendations'[k + 1] = recommendations[k]]_vars

\* C7: a recommendation with a reply, moved to the second place by a later
\* submit.
C7_Witness ==
    /\ Len(recommendations) = 2
    /\ recommendations[1].place = "Mauerpark"
    /\ recommendations[1].replies = <<>>
    /\ recommendations[2].place = "Alexanderplatz"
    /\ recommendations[2].replies = <<"Agreed!">>

\* C8: a press of the reply button at index i with the text r appends r to the
\* replies of that recommendation and changes nothing else of the board; and no
\* step of the session edits or deletes a recommendation or a reply.
C8_ReplyAppends ==
    [][/\ \A i \in 0..(MaxPosts - 1), r_text \in ReplyTexts :
             PressReply(i, r_text) =>
                 /\ Len(recommendations') = Len(recommendations)
                 /\ recommendations'[i + 1].replies =
                        Append(recommendations[i + 1].replies, r_text)
                 /\ recommendations'[i + 1].place = recommendations[i + 1].place
                 /\ recommendations'[i + 1].desc = recommendations[i + 1].desc
                 /\ \A k \in 1..Len(recommendations) :
                        k # i + 1 => recommendations'[k] = recommendations[k]
       /\ LET shift == Len(recommendations') - Len(recommendations) IN
          /\ shift >= 0
          /\ \A k \in 1..Len(recommendations) :
                LET old == recommendations[k]
                    new == recommendations'[k + shift]
                IN  /\ new.place = old.place
                    /\ new.desc = old.desc
                    /\ Len(new.replies) >= Len(old.replies)
                    /\ SubSeq(new.replies, 1, Len(old.replies)) = old.replies]_vars

\* C8: a recommendation replied to twice, the replies in the order given.
C8_Witness ==
    /\ Len(recommendations) = 1
    /\ recommendations[1].replies = <<"", "Agreed!">>

\* C10: the chat history has even length and alternates user, assistant; a
\* chat prompt appends the prompt as a user message and then the completion, or
\* the fallback text, as an assistant message; no step changes or removes a
\* message already there.
ChatWellFormed ==
    /\ Len(messages) % 2 = 0
    /\ \A k \in 1..Len(messages) :
          messages[k].role = (IF k % 2 = 1 THEN "user" ELSE "assistant")

====
